---- MODULE Spec2Model ----
(***************************************************************************)
(* RationalAnalyzer (src/rational_analyzer.py): the analysis of a rational *)
(* function numerator/denominator given as two expression strings         *)
(* (specification Spec), and the session of the app that uses it,          *)
(* src/app.py and src/game_modes.py (specification GameSpec).              *)
(*                                                                         *)
(* Polynomials are sequences of integer coefficients, lowest degree first, *)
(* with a nonzero last entry; the zero polynomial is <<>>.  The symbolic   *)
(* library calls of the source (sympify, solve, gcd, degree, LC, simplify, *)
(* subs, limit) are modelled by what they compute on such polynomials.     *)
(*                                                                         *)
(* Real numbers are exact: a real algebraic number is the k-th real root   *)
(* (ascending) of its minimal polynomial m over the integers (primitive,   *)
(* positive leading coefficient); the rational p/q is the root of q*x - p. *)
(* A Python float is the double nearest such a number.  The roots the      *)
(* model meets are exact rationals or quadratic surds of small height, so  *)
(* two of them yield the same double, and differ by less than the 1e-10 of *)
(* is_hole, exactly when they are equal.                                   *)
(***************************************************************************)
EXTENDS Integers, Sequences, FiniteSets, TLC

\* Largest absolute value of a coefficient written in an input string.
MaxCoef == 1

\* Number of sample points of the plotted curve (np.linspace(..., 2000)),
\* scaled down.
PlotSamples == 5

\* The ceiling above which a sample is not plotted.
PlotCeiling == 1000

----------------------------------------------------------------------------
\* Integer arithmetic

Abs(n) == IF n < 0 THEN -n ELSE n

Sign(n) == IF n < 0 THEN -1 ELSE IF n = 0 THEN 0 ELSE 1

RECURSIVE Gcd(_, _)
Gcd(a, b) == IF b = 0 THEN Abs(a) ELSE Gcd(b, a % Abs(b))

\* Exact integer quotient, rounding toward minus infinity as \div does;
\* used only where b divides a.
Quot(a, b) == IF b < 0 THEN (-a) \div (-b) ELSE a \div b

IsSquare(n) == n >= 0 /\ \E s \in 0..n : s * s = n

ISqrt(n) == CHOOSE s \in 0..n : s * s = n

RECURSIVE Pow(_, _)
Pow(b, e) == IF e = 0 THEN 1 ELSE b * Pow(b, e - 1)

----------------------------------------------------------------------------
\* Polynomials

ZeroPoly == <<>>

\* Drop the zero leading coefficients.
RECURSIVE Trim(_)
Trim(p) ==
    IF p = <<>> THEN <<>>
    ELSE IF p[Len(p)] = 0 THEN Trim(SubSeq(p, 1, Len(p) - 1))
    ELSE p

Coef(p, i) == IF i + 1 \in 1..Len(p) THEN p[i + 1] ELSE 0

LeadCoef(p) == IF p = <<>> THEN 0 ELSE p[Len(p)]

PolyScale(p, c) == Trim([i \in 1..Len(p) |-> c * p[i]])

\* p - c * x^s * q
PolySubShift(p, c, s, q) ==
    LET n == IF Len(p) > Len(q) + s THEN Len(p) ELSE Len(q) + s
    IN  Trim([i \in 1..n |-> Coef(p, i - 1) - c * Coef(q, i - 1 - s)])

RECURSIVE SeqGcd(_)
SeqGcd(p) == IF p = <<>> THEN 0 ELSE Gcd(p[1], SeqGcd(Tail(p)))

Content(p) == SeqGcd(p)

\* The polynomial divided by its content, with a positive leading
\* coefficient.
PrimPart(p) ==
    IF p = <<>> THEN <<>>
    ELSE LET c == Content(p) * Sign(LeadCoef(p))
         IN  [i \in 1..Len(p) |-> Quot(p[i], c)]

\* Pseudo-remainder of p by q (q nonzero).
RECURSIVE PRem(_, _)
PRem(p, q) ==
    IF Len(p) < Len(q) THEN p
    ELSE PRem(PolySubShift(PolyScale(p, LeadCoef(q)), LeadCoef(p),
                           Len(p) - Len(q), q), q)

RECURSIVE PrimGcd(_, _)
PrimGcd(p, q) == IF q = <<>> THEN PrimPart(p) ELSE PrimGcd(q, PrimPart(PRem(p, q)))

\* sp.gcd of two integer polynomials: the content gcd times the primitive
\* gcd, with a positive leading coefficient; gcd(0, 0) = 0.
PolyGcd(p, q) ==
    IF p = <<>> /\ q = <<>> THEN <<>>
    ELSE PolyScale(PrimGcd(PrimPart(p), PrimPart(q)),
                   Gcd(Content(p), Content(q)))

\* Exact quotient p / g, for a nonzero g that divides p over the integers.
RECURSIVE PolyDivExact(_, _)
PolyDivExact(p, g) ==
    IF Len(p) < Len(g) THEN <<>>
    ELSE LET c == Quot(LeadCoef(p), LeadCoef(g))
             s == Len(p) - Len(g)
             r == PolySubShift(p, c, s, g)
             rest == PolyDivExact(r, g)
         IN  Trim([i \in 1..(s + 1) |-> IF i = s + 1 THEN c ELSE Coef(rest, i - 1)])

\* q^n * p(a/q) for integers a, q: the numerator of the value at a/q,
\* n = Len(p) - 1.
RECURSIVE HomEval(_, _, _, _)
HomEval(p, a, q, i) ==
    IF i > Len(p) THEN 0
    ELSE p[i] * Pow(a, i - 1) * Pow(q, Len(p) - i) + HomEval(p, a, q, i + 1)

----------------------------------------------------------------------------
\* Symbolic values: [tag, m, k].  "real": the k-th real root of m;
\* "complex": a non-real root of m; "zoo" (complex infinity), "nan", "oo",
\* "-oo" carry no polynomial.

Sym(t) == [tag |-> t, m |-> <<>>, k |-> 0]

\* The rational p/q in lowest terms, q # 0.
Rat(p, q) ==
    LET g == Gcd(p, q) * Sign(q)
    IN  [tag |-> "real", m |-> <<-Quot(p, g), Quot(q, g)>>, k |-> 1]

IsRational(v) == v.tag = "real" /\ Len(v.m) = 2

Num(v) == -v.m[1]

Den(v) == v.m[2]

\* Division of two rational values as the library evaluates it: n/0 is
\* zoo for n # 0 and 0/0 is nan; no exception is raised.
RatDiv(a, b) ==
    IF Num(b) # 0 THEN Rat(Num(a) * Den(b), Den(a) * Num(b))
    ELSE IF Num(a) # 0 THEN Sym("zoo")
    ELSE Sym("nan")

\* expr.is_real of a solution
is_real(v) == v.tag = "real"

\* expr.is_finite is True only of a finite number (None for nan, False for
\* the infinities).
is_finite(v) == v.tag = "real"

\* The value of the polynomial p at the rational t.
PolyEval(p, t) ==
    IF p = <<>> THEN Rat(0, 1)
    ELSE Rat(HomEval(p, Num(t), Den(t), 1), Pow(Den(t), Len(p) - 1))

\* p.subs(x, v) for a real v.  At a quadratic surd only a constant p is
\* evaluated: the cofactors of an irreducible quadratic gcd of two
\* polynomials of degree at most 2 are constants.
PolySubs(p, v) ==
    IF p = <<>> THEN Rat(0, 1)
    ELSE IF Len(p) = 1 THEN Rat(p[1], 1)
    ELSE IF IsRational(v) THEN PolyEval(p, v)
    ELSE Sym("surd")

\* Whether the real v is a root of p (the zero polynomial vanishes
\* everywhere).
IsRoot(p, v) ==
    IF p = <<>> THEN TRUE
    ELSE IF IsRational(v) THEN HomEval(p, Num(v), Den(v), 1) = 0
    ELSE PRem(p, v.m) = <<>>

\* a < b for two reals that are both rational or roots of the same
\* minimal polynomial (the real roots of one polynomial of degree <= 2).
LessReal(a, b) ==
    IF a.m = b.m THEN a.k < b.k
    ELSE Num(a) * Den(b) < Num(b) * Den(a)

\* sp.solve(p, x): the distinct roots of p, each once whatever its
\* multiplicity; none for a constant and none for the zero expression.
solve(p) ==
    IF Len(p) <= 1 THEN <<>>
    ELSE IF Len(p) = 2 THEN << Rat(-p[1], p[2]) >>
    ELSE LET a == p[3]
             b == p[2]
             c == p[1]
             disc == b * b - 4 * a * c
         IN  IF disc < 0
             THEN << [tag |-> "complex", m |-> PrimPart(p), k |-> 1],
                     [tag |-> "complex", m |-> PrimPart(p), k |-> 2] >>
             ELSE IF disc = 0 THEN << Rat(-b, 2 * a) >>
             ELSE IF IsSquare(disc)
             THEN LET s == ISqrt(disc)
                      r1 == Rat(-b - s, 2 * a)
                      r2 == Rat(-b + s, 2 * a)
                  IN  IF LessReal(r1, r2) THEN <<r1, r2>> ELSE <<r2, r1>>
             ELSE << [tag |-> "real", m |-> PrimPart(p), k |-> 1],
                     [tag |-> "real", m |-> PrimPart(p), k |-> 2] >>

\* sp.degree(p, x): -oo for the zero polynomial, represented as -1.
degree(p) == Len(p) - 1

\* sp.LC(p, x): 0 for the zero polynomial.
LC(p) == LeadCoef(p)

----------------------------------------------------------------------------
\* Python values: [py, of].

NoValue == Sym("none")

PyNone == [py |-> "None", of |-> NoValue]

PyFloat(v) == [py |-> "float", of |-> v]

PyInt(n) == [py |-> "int", of |-> Rat(n, 1)]

\* str(v)
PyStr(v) == [py |-> "str", of |-> v]

\* np.nan
NpNan == PyFloat(Sym("nan"))

\* The outcome of a call or of a try body: a returned value, or an
\* exception.
Return(v) == [exc |-> FALSE, ret |-> v]

Raise == [exc |-> TRUE, ret |-> PyNone]

\* float(v): the nearest double of a real, nan for nan, inf for the real
\* infinities; TypeError for zoo, a non-real number or an unevaluated
\* expression.
ToFloat(v) ==
    IF v.tag \in {"real", "nan", "oo", "-oo"} THEN Return(PyFloat(v)) ELSE Raise

\* sorted(xs) of a list of floats (insertion sort by value).
RECURSIVE Insert(_, _)
Insert(x, xs) ==
    IF xs = <<>> THEN <<x>>
    ELSE IF LessReal(x.of, Head(xs).of) THEN <<x>> \o xs
    ELSE <<Head(xs)>> \o Insert(x, Tail(xs))

RECURSIVE sorted(_)
sorted(xs) == IF xs = <<>> THEN <<>> ELSE Insert(Head(xs), sorted(Tail(xs)))

----------------------------------------------------------------------------
\* Input strings.  A well-formed string is written as in
\* generate_quiz_function, "c2*x**2 + c1*x + c0", coeffs = <<c0, c1, c2>>
\* (any of them may be 0); "x+" and "" are malformed.

Coefs == (-MaxCoef)..MaxCoef

PolyStrings == {[text |-> "c2*x**2 + c1*x + c0", coeffs |-> c] : c \in [1..3 -> Coefs]}

MalformedStrings == {[text |-> "x+", coeffs |-> <<>>], [text |-> "", coeffs |-> <<>>]}

InputStrings == PolyStrings \cup MalformedStrings

\* sp.sympify(s): the expression in canonical form (terms with a zero
\* coefficient vanish), or SympifyError.
sympify(s) ==
    IF s \in MalformedStrings THEN Raise ELSE Return(Trim(s.coeffs))

\* An attribute of the object: unset until assigned.
Unset == [set |-> FALSE, expr |-> <<>>]

Attr(e) == [set |-> TRUE, expr |-> e]

NoFunction == [set |-> FALSE, n |-> <<>>, d |-> <<>>]

\* A single term c*x**k (a number when k = 0).
IsMonomial(p) == p # <<>> /\ \A i \in 1..(Len(p) - 1) : p[i] = 0

\* The single term p divided by x**s, s <= degree(p).
DropPowers(p, s) == SubSeq(p, s + 1, Len(p))

\* numerator / denominator as the library builds the expression: the
\* division never raises (over a zero denominator it is zoo*numerator, or
\* nan for 0/0); 0 over a nonzero expression is 0; an expression over itself
\* is 1; the powers of x of two single terms combine.  No other common
\* factor is cancelled.
Ratio(n, d) ==
    IF d = <<>> THEN [set |-> TRUE, n |-> n, d |-> d]
    ELSE IF n = <<>> THEN [set |-> TRUE, n |-> <<>>, d |-> <<1>>]
    ELSE IF n = d THEN [set |-> TRUE, n |-> <<1>>, d |-> <<1>>]
    ELSE IF IsMonomial(n) /\ IsMonomial(d)
    THEN LET s == (IF Len(n) < Len(d) THEN Len(n) ELSE Len(d)) - 1
         IN  [set |-> TRUE, n |-> DropPowers(n, s), d |-> DropPowers(d, s)]
    ELSE [set |-> TRUE, n |-> n, d |-> d]

NoMessage == <<>>

InvalidMessage(s) == <<"Invalid function: ", "could not parse", s.text>>

\* RationalAnalyzer.__init__: the object's attributes after construction.
init(numerator_str, denominator_str) ==
    LET n == sympify(numerator_str)
        d == sympify(denominator_str)
    IN  IF n.exc
        THEN [numerator |-> Unset, denominator |-> Unset, function |-> NoFunction,
              valid |-> FALSE, error_message |-> InvalidMessage(numerator_str)]
        ELSE IF d.exc
        THEN [numerator |-> Attr(n.ret), denominator |-> Unset,
              function |-> NoFunction,
              valid |-> FALSE, error_message |-> InvalidMessage(denominator_str)]
        ELSE [numerator |-> Attr(n.ret), denominator |-> Attr(d.ret),
              function |-> Ratio(n.ret, d.ret),
              valid |-> TRUE, error_message |-> NoMessage]

----------------------------------------------------------------------------
\* The object and the last call made on it.

\* The attributes of the object; the two strings it was constructed from;
\* the library's behaviour on undefined limits; the last method called,
\* with its arguments and outcome.
VARIABLES numerator, denominator, function, valid, error_message,
          args, undefined_limit, call

fields == <<numerator, denominator, function, valid, error_message>>

\* The app's session (st.session_state) and page: the mode selected in the
\* sidebar, the total score, the Graph Builder's function and step, the
\* race's flag, remaining functions and score, and the buttons the last
\* script run rendered.
VARIABLES game_mode, score, builder_function, current_step,
          race_active, race_functions, race_score, buttons

session == <<game_mode, score, builder_function, current_step,
             race_active, race_functions, race_score, buttons>>

vars == <<numerator, denominator, function, valid, error_message,
          args, undefined_limit, call, session>>

\* What sp.limit does with an expression that holds zoo or nan (the ratio
\* over a zero denominator): the source does not decide it.  Each direction
\* raises, or gives a non-finite value (nan, zoo).
UndefinedLimitOutcomes == {Raise, Return(Sym("nan")), Return(Sym("zoo"))}

\* except: the try body's exception becomes the default value.
Except(t, dflt) == IF t.exc THEN Return(dflt) ELSE t

\* abs(f - x_val) < 1e-10 for a float f and an exact real x_val
Close(f, x_val) == f.of = x_val

----------------------------------------------------------------------------
\* find_holes

\* The loop over the roots of the common factor: each real root gives a
\* hole <<float(root), y_val>>; float(y_val) raises when the reduced
\* denominator vanishes at the root (y_val is zoo).
RECURSIVE holes_loop(_, _)
holes_loop(common_factors, common_roots) ==
    IF common_roots = <<>> THEN Return(<<>>)
    ELSE LET root == Head(common_roots)
             rest == holes_loop(common_factors, Tail(common_roots))
         IN  IF ~is_real(root) THEN rest
             ELSE LET simplified_num == PolyDivExact(numerator.expr, common_factors)
                      simplified_den == PolyDivExact(denominator.expr, common_factors)
                      y_val == ToFloat(RatDiv(PolySubs(simplified_num, root),
                                              PolySubs(simplified_den, root)))
                      x_val == ToFloat(root)
                  IN  IF y_val.exc \/ x_val.exc \/ rest.exc THEN Raise
                      ELSE Return(<< <<x_val.ret, y_val.ret>> >> \o rest.ret)

find_holes_try ==
    LET common_factors == PolyGcd(numerator.expr, denominator.expr)
    IN  IF common_factors = <<1>> THEN Return(<<>>)
        ELSE holes_loop(common_factors, solve(common_factors))

\* find_holes without its except clause.
find_holes_unguarded ==
    IF ~valid THEN Return(<<>>) ELSE find_holes_try

find_holes ==
    IF ~valid THEN Return(<<>>) ELSE Except(find_holes_try, <<>>)

\* A hole check that finds no hole.
is_hole_never(x_val) == Return(FALSE)

\* is_hole(x_val): outside any try of its own; it runs inside the try of
\* its callers.
is_hole(x_val) ==
    LET holes == find_holes
    IN  IF holes.exc THEN Raise
        ELSE Return(\E i \in 1..Len(holes.ret) : Close(holes.ret[i][1], x_val))

----------------------------------------------------------------------------
\* find_vertical_asymptotes

RECURSIVE asymptotes_loop(_)
asymptotes_loop(denom_roots) ==
    IF denom_roots = <<>> THEN Return(<<>>)
    ELSE LET root == Head(denom_roots)
             rest == asymptotes_loop(Tail(denom_roots))
         IN  IF ~is_real(root) THEN rest
             ELSE LET hole == is_hole(root)
                      f == ToFloat(root)
                  IN  IF hole.exc \/ rest.exc THEN Raise
                      ELSE IF hole.ret THEN rest
                      ELSE IF f.exc THEN Raise
                      ELSE Return(<<f.ret>> \o rest.ret)

find_vertical_asymptotes_try ==
    LET asymptotes == asymptotes_loop(solve(denominator.expr))
    IN  IF asymptotes.exc THEN Raise ELSE Return(sorted(asymptotes.ret))

find_vertical_asymptotes ==
    IF ~valid THEN Return(<<>>) ELSE Except(find_vertical_asymptotes_try, <<>>)

----------------------------------------------------------------------------
\* find_horizontal_asymptote

find_horizontal_asymptote_try ==
    LET num_degree == degree(numerator.expr)
        den_degree == degree(denominator.expr)
    IN  IF num_degree < den_degree THEN Return(PyInt(0))
        ELSE IF num_degree = den_degree
        THEN ToFloat(RatDiv(Rat(LC(numerator.expr), 1), Rat(LC(denominator.expr), 1)))
        ELSE Return(PyNone)

find_horizontal_asymptote ==
    IF ~valid THEN Return(PyNone) ELSE Except(find_horizontal_asymptote_try, PyNone)

----------------------------------------------------------------------------
\* find_x_intercepts

RECURSIVE intercepts_loop(_)
intercepts_loop(num_roots) ==
    IF num_roots = <<>> THEN Return(<<>>)
    ELSE LET root == Head(num_roots)
             rest == intercepts_loop(Tail(num_roots))
         IN  IF ~is_real(root) THEN rest
             ELSE LET hole == is_hole(root)
                      f == ToFloat(root)
                  IN  IF hole.exc \/ rest.exc THEN Raise
                      ELSE IF hole.ret THEN rest
                      ELSE IF f.exc THEN Raise
                      ELSE Return(<<f.ret>> \o rest.ret)

find_x_intercepts_try ==
    LET intercepts == intercepts_loop(solve(numerator.expr))
    IN  IF intercepts.exc THEN Raise ELSE Return(sorted(intercepts.ret))

find_x_intercepts ==
    IF ~valid THEN Return(<<>>) ELSE Except(find_x_intercepts_try, <<>>)

----------------------------------------------------------------------------
\* find_y_intercept

\* function.subs(x, t) at a rational t
FunctionSubs(t) == RatDiv(PolyEval(function.n, t), PolyEval(function.d, t))

\* The zero test made on the numerator.
find_y_intercept_try_numerator_test ==
    IF PolySubs(numerator.expr, Rat(0, 1)) # Rat(0, 1)
    THEN ToFloat(FunctionSubs(Rat(0, 1)))
    ELSE Return(PyNone)

find_y_intercept_try ==
    IF PolySubs(denominator.expr, Rat(0, 1)) # Rat(0, 1)
    THEN ToFloat(FunctionSubs(Rat(0, 1)))
    ELSE Return(PyNone)

find_y_intercept ==
    IF ~valid THEN Return(PyNone) ELSE Except(find_y_intercept_try, PyNone)

----------------------------------------------------------------------------
\* analyze_end_behavior

\* sp.limit(function, x, dir), dir "+oo" or "-oo".  For a ratio of
\* polynomials with a nonzero denominator the degrees and the leading
\* coefficients decide it.
limit(dir) ==
    LET n == function.n
        d == function.d
    IN  IF d = <<>> THEN undefined_limit[dir]
        ELSE IF n = <<>> THEN Return(Rat(0, 1))
        ELSE IF Len(n) < Len(d) THEN Return(Rat(0, 1))
        ELSE IF Len(n) = Len(d) THEN Return(Rat(LeadCoef(n), LeadCoef(d)))
        ELSE LET flip == IF dir = "-oo" /\ (Len(n) - Len(d)) % 2 = 1 THEN -1 ELSE 1
                 sgn == Sign(LeadCoef(n)) * Sign(LeadCoef(d)) * flip
             IN  Return(IF sgn > 0 THEN Sym("oo") ELSE Sym("-oo"))

\* float(l) if l.is_finite else str(l), and str(l) when that raises
limit_to_python(l) ==
    IF is_finite(l) THEN Except(ToFloat(l), PyStr(l)).ret ELSE PyStr(l)

\* A failure reported per direction.
analyze_end_behavior_try_per_direction ==
    LET limit_pos_inf == limit("+oo")
        limit_neg_inf == limit("-oo")
    IN  Return(<<IF limit_neg_inf.exc THEN PyNone
                 ELSE limit_to_python(limit_neg_inf.ret),
                 IF limit_pos_inf.exc THEN PyNone
                 ELSE limit_to_python(limit_pos_inf.ret)>>)

\* The pair returned in the order the limits are computed.
analyze_end_behavior_try_pos_first ==
    LET limit_pos_inf == limit("+oo")
        limit_neg_inf == limit("-oo")
    IN  IF limit_pos_inf.exc \/ limit_neg_inf.exc THEN Raise
        ELSE Return(<<limit_to_python(limit_pos_inf.ret),
                      limit_to_python(limit_neg_inf.ret)>>)

analyze_end_behavior_try ==
    LET limit_pos_inf == limit("+oo")
        limit_neg_inf == limit("-oo")
    IN  IF limit_pos_inf.exc \/ limit_neg_inf.exc THEN Raise
        ELSE Return(<<limit_to_python(limit_neg_inf.ret),
                      limit_to_python(limit_pos_inf.ret)>>)

analyze_end_behavior ==
    IF ~valid THEN Return(<<PyNone, PyNone>>)
    ELSE Except(analyze_end_behavior_try, <<PyNone, PyNone>>)

----------------------------------------------------------------------------
\* plot_function

\* The x ranges passed: the default, the quiz's, and a wide one.
XRanges == {<<-10, 10>>, <<-8, 8>>, <<-100, 100>>}

\* np.linspace(lo, hi, PlotSamples): evenly spaced, both ends included.
linspace(lo, hi) ==
    [i \in 1..PlotSamples |-> Rat(lo * (PlotSamples - 1) + (i - 1) * (hi - lo),
                                  PlotSamples - 1)]

\* abs(y_val) > 1000 of a float (False for nan, True for inf)
ExceedsCeiling(y) ==
    \/ y.of.tag \in {"oo", "-oo"}
    \/ y.of.tag = "real" /\ Abs(Num(y.of)) > PlotCeiling * Den(y.of)

\* A sample kept whatever its magnitude.
sample_unclipped(x_val) ==
    LET y_val == ToFloat(FunctionSubs(x_val))
    IN  IF y_val.exc THEN NpNan ELSE y_val.ret

\* One sample of the curve: the value, or np.nan when it is too large or
\* when its evaluation raises.
sample(x_val) ==
    LET y_val == ToFloat(FunctionSubs(x_val))
    IN  IF y_val.exc THEN NpNan
        ELSE IF ExceedsCeiling(y_val.ret) THEN NpNan
        ELSE y_val.ret

\* The figure: the sampled curve and the axis bounds.  The guide lines and
\* markers drawn on it come from the queries above, which change nothing
\* and never raise; they go to the rendering library only.
plot_function(x_range, y_range) ==
    IF ~valid THEN Return(PyNone)
    ELSE LET x_vals == linspace(x_range[1], x_range[2])
             y_vals == [i \in 1..Len(x_vals) |-> sample(x_vals[i])]
         IN  Return([x_vals |-> x_vals, y_vals |-> y_vals,
                     xlim |-> x_range, ylim |-> y_range])

----------------------------------------------------------------------------
\* get_analysis_summary

\* The summary built without looking at valid.
get_analysis_summary_unchecked ==
    Return([vertical_asymptotes |-> find_vertical_asymptotes.ret,
            horizontal_asymptote |-> find_horizontal_asymptote.ret,
            holes |-> find_holes.ret,
            x_intercepts |-> find_x_intercepts.ret,
            y_intercept |-> find_y_intercept.ret,
            end_behavior |-> analyze_end_behavior.ret])

get_analysis_summary ==
    IF ~valid THEN Return([error |-> error_message])
    ELSE LET va == find_vertical_asymptotes
             ha == find_horizontal_asymptote
             ho == find_holes
             xi == find_x_intercepts
             yi == find_y_intercept
             eb == analyze_end_behavior
         IN  IF va.exc \/ ha.exc \/ ho.exc \/ xi.exc \/ yi.exc \/ eb.exc
             THEN Raise
             ELSE Return([vertical_asymptotes |-> va.ret,
                          horizontal_asymptote |-> ha.ret,
                          holes |-> ho.ret,
                          x_intercepts |-> xi.ret,
                          y_intercept |-> yi.ret,
                          end_behavior |-> eb.ret])

----------------------------------------------------------------------------
\* The app (src/app.py, src/game_modes.py).  Every interaction with the
\* page runs the script once over the session state, ss; st.rerun() runs it
\* once more with no button pressed.  A session key that is absent is held
\* with the value its first reader gives it (current_step 0, race_active
\* False, race_functions [], race_score 0).  The Feature Quiz, which touches
\* the score and the level only, and the level are left out.

\* Largest total score followed.
MaxScore == 20

GameModeNames == {"Function Input", "Graph Builder", "End Behavior Race"}

NoButton == ""

\* The result of a text input set against the analyzer's answer.
Answers == {"correct", "incorrect", "invalid"}

RadioOptions == {"-> +oo", "-> -oo", "-> finite value"}

\* The draws (a, b, c, d) of generate_builder_function followed: three of
\* the 250.
BuilderDraws == {<<1, -2, 0, 1>>, <<2, 1, -1, 2>>, <<1, 1, 1, 1>>}

\* 'builder_function' not in st.session_state
NoBuilderFunction ==
    [numerator |-> [text |-> "", coeffs |-> <<>>],
     denominator |-> [text |-> "", coeffs |-> <<>>]]

\* The function "a*x + b" over "(x + c)*(x + d)".
generate_builder_function(draw) ==
    [numerator |-> [text |-> "a*x + b", coeffs |-> <<draw[1], draw[2]>>],
     denominator |-> [text |-> "(x + c)*(x + d)", coeffs |-> <<draw[3], draw[4]>>]]

\* Number of functions of a race.
RaceLength == 5

\* The draws of coeffs in generate_race_functions followed: two of the 81.
RaceDraws == {<<1, 1, 1, 1>>, <<3, 1, 1, 2>>}

\* The functions "c0*x + c1" over "c2*x + c3", one for each draw.
generate_race_functions(count, draws) ==
    [i \in 1..count |->
        [numerator |-> [text |-> "c0*x + c1", coeffs |-> <<draws[i][1], draws[i][2]>>],
         denominator |-> [text |-> "c2*x + c3", coeffs |-> <<draws[i][3], draws[i][4]>>]]]

\* check_end_behavior: the analyzer's limits are computed (no query raises)
\* and every answer is accepted.
check_end_behavior(func_data, neg_inf_answer, pos_inf_answer) == TRUE

\* The outcome of a script run: the session, the buttons rendered, and
\* whether st.rerun() ended it.
Shown(ss, rendered) == [ss |-> ss, buttons |-> rendered, rerun |-> FALSE]

Rerun(ss) == [ss |-> ss, buttons |-> {}, rerun |-> TRUE]

\* Graph Builder

steps == <<"Vertical Asymptotes", "Horizontal Asymptote", "Holes",
           "Intercepts", "Graph Shape">>

build_vertical_asymptotes(ss, pressed, va_input) ==
    IF pressed = "Check Vertical Asymptotes" /\ va_input = "correct"
    THEN Rerun([ss EXCEPT !.current_step = @ + 1])
    ELSE Shown(ss, {"Check Vertical Asymptotes"})

build_horizontal_asymptote(ss, pressed, ha_input) ==
    IF pressed = "Check Horizontal Asymptote" /\ ha_input = "correct"
    THEN Rerun([ss EXCEPT !.current_step = @ + 1])
    ELSE Shown(ss, {"Check Horizontal Asymptote"})

\* Every branch of the check moves to the next step.
build_holes(ss, pressed) ==
    IF pressed = "Check Holes"
    THEN Rerun([ss EXCEPT !.current_step = @ + 1])
    ELSE Shown(ss, {"Check Holes"})

\* correct_yi is not None: find_y_intercept of "a*x + b" over
\* "(x + c)*(x + d)" returns None when the denominator, c*d at 0, is 0
\* there, and the finite b/(c*d) otherwise.
has_y_intercept(func_data) ==
    func_data.denominator.coeffs[1] * func_data.denominator.coeffs[2] # 0

build_intercepts(ss, func_data, pressed, xi_input, yi_input) ==
    LET xi_correct == xi_input = "correct"
        yi_correct == has_y_intercept(func_data) /\ yi_input = "correct"
    IN  IF pressed = "Check Intercepts" /\ xi_correct /\ yi_correct
        THEN Rerun([ss EXCEPT !.current_step = @ + 1])
        ELSE Shown(ss, {"Check Intercepts"})

\* The final step shows the graph and awards the points; it has no button.
build_graph_shape(ss) ==
    Shown([ss EXCEPT !.score = @ + 10, !.current_step = @ + 1], {})

\* "New Challenge" is rendered only when the session holds a function (the
\* or short-circuits); it does not touch current_step.
graph_builder_mode(ss, pressed, in) ==
    LET held == ss.builder_function # NoBuilderFunction
        generated ==
            IF ~held \/ pressed = "New Challenge"
            THEN [ss EXCEPT !.builder_function = generate_builder_function(in.draw)]
            ELSE ss
        func_data == generated.builder_function
        step_now == generated.current_step
        step ==
            IF step_now < Len(steps)
            THEN CASE steps[step_now + 1] = "Vertical Asymptotes" ->
                        build_vertical_asymptotes(generated, pressed, in.answer)
                   [] steps[step_now + 1] = "Horizontal Asymptote" ->
                        build_horizontal_asymptote(generated, pressed, in.answer)
                   [] steps[step_now + 1] = "Holes" ->
                        build_holes(generated, pressed)
                   [] steps[step_now + 1] = "Intercepts" ->
                        build_intercepts(generated, func_data, pressed,
                                         in.answer, in.yi_input)
                   [] steps[step_now + 1] = "Graph Shape" ->
                        build_graph_shape(generated)
            ELSE IF pressed = "Start New Challenge"
            THEN Rerun([generated EXCEPT !.current_step = 0,
                                         !.builder_function = NoBuilderFunction])
            ELSE Shown(generated, {"Start New Challenge"})
    IN  [step EXCEPT !.buttons = @ \cup (IF held THEN {"New Challenge"} ELSE {})]

\* End Behavior Race

\* The points added with the race left active.
race_finished_still_active(ss) ==
    Shown([ss EXCEPT !.score = @ + ss.race_score * 2], {})

\* The race is over: the points are added to the total score.
race_finished(ss) ==
    Shown([ss EXCEPT !.score = @ + ss.race_score * 2, !.race_active = FALSE], {})

end_behavior_race_mode(ss, pressed, in) ==
    IF ~ss.race_active
    THEN IF pressed = "Start Race!"
         THEN Rerun([ss EXCEPT !.race_active = TRUE,
                               !.race_functions =
                                   generate_race_functions(RaceLength, in.race_draws),
                               !.race_score = 0])
         ELSE Shown(ss, {"Start Race!"})
    ELSE IF ss.race_functions # <<>>
    THEN LET current_func == ss.race_functions[1]
         IN  IF pressed = "Submit"
             THEN LET correct == check_end_behavior(current_func, in.neg_inf_answer,
                                                    in.pos_inf_answer)
                  IN  Rerun([ss EXCEPT !.race_score = IF correct THEN @ + 1 ELSE @,
                                       !.race_functions = Tail(@)])
             ELSE Shown(ss, {"Submit"})
    ELSE race_finished(ss)

\* One run of app.py: the sidebar with "Reset Game", then the selected mode.
script_run(ss, mode, pressed, in) ==
    IF pressed = "Reset Game" THEN Rerun([ss EXCEPT !.score = 0])
    ELSE LET page == CASE mode = "Graph Builder" -> graph_builder_mode(ss, pressed, in)
                       [] mode = "End Behavior Race" ->
                            end_behavior_race_mode(ss, pressed, in)
                       [] OTHER -> Shown(ss, {})
         IN  [page EXCEPT !.buttons = @ \cup {"Reset Game"}]

\* An interaction: the run it triggers, and the run st.rerun() triggers.
interaction(ss, mode, pressed, in) ==
    LET first == script_run(ss, mode, pressed, in)
    IN  IF first.rerun THEN script_run(first.ss, mode, NoButton, in) ELSE first

\* The session after the first run of the script, in the default mode.
NewSession ==
    [score |-> 0, builder_function |-> NoBuilderFunction, current_step |-> 0,
     race_active |-> FALSE, race_functions |-> <<>>, race_score |-> 0]

----------------------------------------------------------------------------
\* The state machine: an analyzer is constructed from two input strings
\* and then queried, any method any number of times in any order.  call
\* is the result the caller holds: with a result in hand the caller calls
\* the same method again or drops the result before its next call.

Called(method, arguments, out) ==
    [method |-> method, args |-> arguments, out |-> out]

NoCall == Called("__init__", <<>>, Return(PyNone))

NoLimit == [dir \in {"+oo", "-oo"} |-> Raise]

\* The session variables hold ss, the page shows the mode and the buttons.
SessionIs(ss, mode, rendered) ==
    /\ game_mode = mode
    /\ score = ss.score
    /\ builder_function = ss.builder_function
    /\ current_step = ss.current_step
    /\ race_active = ss.race_active
    /\ race_functions = ss.race_functions
    /\ race_score = ss.race_score
    /\ buttons = rendered

Init ==
    \E numerator_str \in InputStrings, denominator_str \in InputStrings :
        LET self == init(numerator_str, denominator_str)
        IN  /\ numerator = self.numerator
            /\ denominator = self.denominator
            /\ function = self.function
            /\ valid = self.valid
            /\ error_message = self.error_message
            /\ args = <<numerator_str, denominator_str>>
            /\ undefined_limit \in
                 IF self.valid /\ self.denominator.expr = <<>>
                 THEN [{"+oo", "-oo"} -> UndefinedLimitOutcomes]
                 ELSE {NoLimit}
            /\ call = NoCall
            /\ SessionIs(NewSession, "Function Input", {"Reset Game"})

\* Whether the caller may call method with arguments now.
MayCall(method, arguments) ==
    \/ call = NoCall
    \/ call.method = method /\ call.args = arguments

CallFindVerticalAsymptotes ==
    /\ MayCall("find_vertical_asymptotes", <<>>)
    /\ call' = Called("find_vertical_asymptotes", <<>>, find_vertical_asymptotes)
    /\ UNCHANGED <<fields, args, undefined_limit, session>>

CallFindHorizontalAsymptote ==
    /\ MayCall("find_horizontal_asymptote", <<>>)
    /\ call' = Called("find_horizontal_asymptote", <<>>, find_horizontal_asymptote)
    /\ UNCHANGED <<fields, args, undefined_limit, session>>

\* find_holes keeping the reduced denominator in the object.
CallFindHolesStoring ==
    /\ MayCall("find_holes", <<>>)
    /\ call' = Called("find_holes", <<>>, find_holes)
    /\ denominator' =
          IF valid /\ denominator.expr # ZeroPoly
          THEN Attr(PolyDivExact(denominator.expr,
                                 PolyGcd(numerator.expr, denominator.expr)))
          ELSE denominator
    /\ UNCHANGED <<numerator, function, valid, error_message, args,
                   undefined_limit, session>>

CallFindHoles ==
    /\ MayCall("find_holes", <<>>)
    /\ call' = Called("find_holes", <<>>, find_holes)
    /\ UNCHANGED <<fields, args, undefined_limit, session>>

CallFindXIntercepts ==
    /\ MayCall("find_x_intercepts", <<>>)
    /\ call' = Called("find_x_intercepts", <<>>, find_x_intercepts)
    /\ UNCHANGED <<fields, args, undefined_limit, session>>

CallFindYIntercept ==
    /\ MayCall("find_y_intercept", <<>>)
    /\ call' = Called("find_y_intercept", <<>>, find_y_intercept)
    /\ UNCHANGED <<fields, args, undefined_limit, session>>

CallAnalyzeEndBehavior ==
    /\ MayCall("analyze_end_behavior", <<>>)
    /\ call' = Called("analyze_end_behavior", <<>>, analyze_end_behavior)
    /\ UNCHANGED <<fields, args, undefined_limit, session>>

CallPlotFunction ==
    /\ \E x_range \in XRanges :
          /\ MayCall("plot_function", <<x_range, x_range>>)
          /\ call' = Called("plot_function", <<x_range, x_range>>,
                            plot_function(x_range, x_range))
    /\ UNCHANGED <<fields, args, undefined_limit, session>>

CallGetAnalysisSummary ==
    /\ MayCall("get_analysis_summary", <<>>)
    /\ call' = Called("get_analysis_summary", <<>>, get_analysis_summary)
    /\ UNCHANGED <<fields, args, undefined_limit, session>>

\* The caller is done with the result it holds.
DropResult ==
    /\ call # NoCall
    /\ call' = NoCall
    /\ UNCHANGED <<fields, args, undefined_limit, session>>

Next ==
    \/ CallFindVerticalAsymptotes
    \/ CallFindHorizontalAsymptote
    \/ CallFindHoles
    \/ CallFindXIntercepts
    \/ CallFindYIntercept
    \/ CallAnalyzeEndBehavior
    \/ CallPlotFunction
    \/ CallGetAnalysisSummary
    \/ DropResult

Spec == Init /\ [][Next]_vars

----------------------------------------------------------------------------
\* The app as a state machine: a fresh session, then one interaction after
\* another.  The analyzers of the handlers are local to them; the object of
\* the first part is not constructed here.

Session ==
    [score |-> score, builder_function |-> builder_function,
     current_step |-> current_step, race_active |-> race_active,
     race_functions |-> race_functions, race_score |-> race_score]

\* The inputs of a run that reads none of them.
Unread ==
    [draw |-> <<1, 1, 1, 1>>, answer |-> "invalid", yi_input |-> "invalid",
     race_draws |-> [i \in 1..RaceLength |-> <<1, 1, 1, 1>>],
     neg_inf_answer |-> "-> +oo", pos_inf_answer |-> "-> +oo"]

\* The page after an interaction; total scores above MaxScore are not
\* followed.
Becomes(mode, out) ==
    /\ out.ss.score <= MaxScore
    /\ game_mode' = mode
    /\ score' = out.ss.score
    /\ builder_function' = out.ss.builder_function
    /\ current_step' = out.ss.current_step
    /\ race_active' = out.ss.race_active
    /\ race_functions' = out.ss.race_functions
    /\ race_score' = out.ss.race_score
    /\ buttons' = out.buttons
    /\ UNCHANGED <<fields, args, undefined_limit, call>>

\* The runs that a press of the button label triggers.
Pressed(label, in) == interaction(Session, game_mode, label, in)

GameInit ==
    LET self == init(CHOOSE str \in MalformedStrings : str.text = "",
                     CHOOSE str \in MalformedStrings : str.text = "")
    IN  /\ numerator = self.numerator
        /\ denominator = self.denominator
        /\ function = self.function
        /\ valid = self.valid
        /\ error_message = self.error_message
        /\ args = <<>>
        /\ undefined_limit = NoLimit
        /\ call = NoCall
        /\ SessionIs(NewSession, "Function Input", {"Reset Game"})

\* The selectbox of the sidebar.
SelectGameMode ==
    \E mode \in GameModeNames \ {game_mode}, draw \in BuilderDraws :
        Becomes(mode, interaction(Session, mode, NoButton,
                                  [Unread EXCEPT !.draw = draw]))

\* A text input or a radio of the page is changed.
EditInput ==
    /\ \/ game_mode = "Graph Builder" /\ current_step < Len(steps) - 1
       \/ game_mode = "End Behavior Race" /\ race_active
    /\ Becomes(game_mode, interaction(Session, game_mode, NoButton, Unread))

PressResetGame ==
    /\ "Reset Game" \in buttons
    /\ Becomes(game_mode, Pressed("Reset Game", Unread))

PressNewChallenge ==
    /\ "New Challenge" \in buttons
    /\ \E draw \in BuilderDraws :
          Becomes(game_mode, Pressed("New Challenge", [Unread EXCEPT !.draw = draw]))

PressCheckVerticalAsymptotes ==
    /\ "Check Vertical Asymptotes" \in buttons
    /\ \E va_input \in Answers :
          Becomes(game_mode, Pressed("Check Vertical Asymptotes",
                                     [Unread EXCEPT !.answer = va_input]))

PressCheckHorizontalAsymptote ==
    /\ "Check Horizontal Asymptote" \in buttons
    /\ \E ha_input \in Answers :
          Becomes(game_mode, Pressed("Check Horizontal Asymptote",
                                     [Unread EXCEPT !.answer = ha_input]))

PressCheckHoles ==
    /\ "Check Holes" \in buttons
    /\ Becomes(game_mode, Pressed("Check Holes", Unread))

PressCheckIntercepts ==
    /\ "Check Intercepts" \in buttons
    /\ \E xi_input \in Answers, yi_input \in Answers :
          Becomes(game_mode, Pressed("Check Intercepts",
                                     [Unread EXCEPT !.answer = xi_input,
                                                    !.yi_input = yi_input]))

PressStartNewChallenge ==
    /\ "Start New Challenge" \in buttons
    /\ \E draw \in BuilderDraws :
          Becomes(game_mode, Pressed("Start New Challenge",
                                     [Unread EXCEPT !.draw = draw]))

PressStartRace ==
    /\ "Start Race!" \in buttons
    /\ \E race_draws \in [1..RaceLength -> RaceDraws] :
          Becomes(game_mode, Pressed("Start Race!",
                                     [Unread EXCEPT !.race_draws = race_draws]))

PressSubmit ==
    /\ "Submit" \in buttons
    /\ \E neg_inf_answer \in RadioOptions, pos_inf_answer \in RadioOptions :
          Becomes(game_mode, Pressed("Submit",
                                     [Unread EXCEPT !.neg_inf_answer = neg_inf_answer,
                                                    !.pos_inf_answer = pos_inf_answer]))

GameNext ==
    \/ SelectGameMode
    \/ EditInput
    \/ PressResetGame
    \/ PressNewChallenge
    \/ PressCheckVerticalAsymptotes
    \/ PressCheckHorizontalAsymptote
    \/ PressCheckHoles
    \/ PressCheckIntercepts
    \/ PressStartNewChallenge
    \/ PressStartRace
    \/ PressSubmit

GameSpec == GameInit /\ [][GameNext]_vars

----------------------------------------------------------------------------
\* Properties

InList(f, xs) == \E j \in 1..Len(xs) : xs[j] = f

ParseFails(str) == sympify(str).exc

HoleIsCommonRootAndExcluded(hole, asymptotes, intercepts) ==
    /\ is_real(hole[1].of)
    /\ IsRoot(numerator.expr, hole[1].of)
    /\ IsRoot(denominator.expr, hole[1].of)
    /\ ~InList(hole[1], asymptotes)
    /\ ~InList(hole[1], intercepts)

\* C1: for a valid analyzer, the x of every hole that find_holes returns
\* (directly, or in the summary) is a real root of the numerator and of the
\* denominator, and is neither among the vertical asymptotes nor among the
\* x-intercepts.
C1_HolesAreExcludedCommonRoots ==
    /\ (valid /\ call.method = "find_holes") =>
          \A i \in 1..Len(call.out.ret) :
              HoleIsCommonRootAndExcluded(call.out.ret[i],
                                          find_vertical_asymptotes.ret,
                                          find_x_intercepts.ret)
    /\ (valid /\ call.method = "get_analysis_summary") =>
          \A i \in 1..Len(call.out.ret.holes) :
              HoleIsCommonRootAndExcluded(call.out.ret.holes[i],
                                          call.out.ret.vertical_asymptotes,
                                          call.out.ret.x_intercepts)

\* find_holes returned a hole of a function whose numerator is not 0.
C1_Witness ==
    /\ valid
    /\ call.method = "find_holes"
    /\ call.out.ret # <<>>
    /\ numerator.expr # ZeroPoly

YInterceptAsClaimed(r) ==
    LET n0 == Coef(numerator.expr, 0)
        d0 == Coef(denominator.expr, 0)
    IN  /\ (r = PyNone) <=> (d0 = 0)
        /\ (r # PyNone) => r = PyFloat(Rat(n0, d0))

\* C2: for a valid analyzer, find_y_intercept returns None exactly when the
\* denominator is 0 at x = 0 (its constant term is 0), and otherwise the
\* float numerator(0)/denominator(0).
C2_YInterceptIffDenominatorNonzero ==
    /\ (valid /\ call.method = "find_y_intercept") =>
          YInterceptAsClaimed(call.out.ret)
    /\ (valid /\ call.method = "get_analysis_summary") =>
          YInterceptAsClaimed(call.out.ret.y_intercept)

\* find_y_intercept returned a nonzero value.
C2_Witness ==
    /\ valid
    /\ call.method = "find_y_intercept"
    /\ call.out.ret.py = "float"
    /\ call.out.ret # PyFloat(Rat(0, 1))

\* C3: for a valid analyzer, find_horizontal_asymptote returns 0 when
\* deg(numerator) < deg(denominator), the ratio of the leading coefficients
\* when the degrees are equal, and None when deg(numerator) >
\* deg(denominator); where the ratio is undefined (both polynomials zero)
\* it returns None.  The zero polynomial has degree -oo.
C3_DegreeComparisonLaw ==
    (valid /\ call.method = "find_horizontal_asymptote") =>
        LET num_degree == Len(numerator.expr)
            den_degree == Len(denominator.expr)
            r == call.out.ret
        IN  /\ num_degree < den_degree => r = PyInt(0)
            /\ (num_degree = den_degree /\ denominator.expr # ZeroPoly) =>
                  r = PyFloat(Rat(LeadCoef(numerator.expr),
                                  LeadCoef(denominator.expr)))
            /\ (num_degree = den_degree /\ denominator.expr = ZeroPoly) =>
                  r = PyNone
            /\ num_degree > den_degree => r = PyNone

QueryMethods ==
    {"find_vertical_asymptotes", "find_horizontal_asymptote", "find_holes",
     "find_x_intercepts", "find_y_intercept", "analyze_end_behavior",
     "get_analysis_summary"}

\* The empty or absent form of each method's result.
EmptyForm(method) ==
    CASE method \in {"find_vertical_asymptotes", "find_holes",
                     "find_x_intercepts"} -> <<>>
      [] method = "analyze_end_behavior" -> <<PyNone, PyNone>>
      [] OTHER -> PyNone

\* C4: when either input string fails to parse, the analyzer is invalid
\* with a recorded message, get_analysis_summary returns a record whose
\* only field is error, and every other method, plot_function included,
\* returns its empty or absent form without raising.
C4_InvalidInputYieldsEmptyForms ==
    (ParseFails(args[1]) \/ ParseFails(args[2])) =>
        /\ ~valid
        /\ error_message # NoMessage
        /\ ~call.out.exc
        /\ call.method = "get_analysis_summary" =>
              /\ DOMAIN call.out.ret = {"error"}
              /\ call.out.ret.error = error_message
        /\ call.method \in (QueryMethods \cup {"plot_function"})
                             \ {"get_analysis_summary"} =>
              call.out.ret = EmptyForm(call.method)

\* The summary of an analyzer whose denominator string did not parse.
C4_Witness ==
    /\ ~ParseFails(args[1])
    /\ ParseFails(args[2])
    /\ call.method = "get_analysis_summary"

\* C5: in a valid analyzer the denominator is not the zero polynomial.
C5_ValidDenominatorNonzero ==
    valid => denominator.expr # ZeroPoly

\* C6: a query step changes no attribute of the object, and a call of the
\* method just called, with the same arguments, returns what that call
\* returned.
C6_QueriesArePure ==
    [][/\ fields' = fields
       /\ (call.method = call'.method /\ call.args = call'.args) =>
             call'.out = call.out]_vars

\* A query of a valid analyzer has returned a non-empty result.
C6_Witness ==
    /\ valid
    /\ call.method = "find_vertical_asymptotes"
    /\ call.out.ret # <<>>

\* C7: for a valid analyzer, no query and no summary ends with an
\* exception.
C7_NoQueryRaises ==
    (valid /\ call.method \in QueryMethods) => ~call.out.exc

\* find_holes returned although its body raised (the reduced denominator
\* vanishes at the common root).
C7_Witness ==
    /\ valid
    /\ call.method = "find_holes"
    /\ find_holes_try.exc
    /\ call.out = Return(<<>>)

\* C8: for a valid analyzer, every x-intercept reported is a real root of
\* the numerator at which the denominator is not 0.
C8_XInterceptsOffDenominatorRoots ==
    (valid /\ call.method = "find_x_intercepts") =>
        \A i \in 1..Len(call.out.ret) :
            /\ is_real(call.out.ret[i].of)
            /\ IsRoot(numerator.expr, call.out.ret[i].of)
            /\ ~IsRoot(denominator.expr, call.out.ret[i].of)

\* C9: for a valid analyzer, every vertical asymptote reported is a real
\* root of the denominator at which the numerator is not 0.
C9_AsymptotesOffNumeratorRoots ==
    (valid /\ call.method = "find_vertical_asymptotes") =>
        \A i \in 1..Len(call.out.ret) :
            /\ is_real(call.out.ret[i].of)
            /\ IsRoot(denominator.expr, call.out.ret[i].of)
            /\ ~IsRoot(numerator.expr, call.out.ret[i].of)

FiniteOrToken(v) ==
    \/ v.py = "float" /\ v.of.tag = "real"
    \/ v.py = "str"

\* C10: analyze_end_behavior returns (None, None) or a pair of which each
\* component is a finite number or a symbolic token, never a pair with
\* exactly one None; on an invalid analyzer it returns (None, None).
C10_EndBehaviorAllOrNothing ==
    call.method = "analyze_end_behavior" =>
        /\ ~call.out.exc
        /\ \/ call.out.ret = <<PyNone, PyNone>>
           \/ FiniteOrToken(call.out.ret[1]) /\ FiniteOrToken(call.out.ret[2])
        /\ ~valid => call.out.ret = <<PyNone, PyNone>>

\* One limit raised and the other did not: both are reported absent.
C10_Witness ==
    /\ valid
    /\ call.method = "analyze_end_behavior"
    /\ limit("+oo").exc
    /\ ~limit("-oo").exc
    /\ call.out.ret = <<PyNone, PyNone>>

\* The real roots of p the properties range over: all of them for a nonzero
\* p; every real is a root of the zero polynomial, of which three stand for
\* all.
RealRootsOf(p) ==
    IF p = ZeroPoly THEN {Rat(-1, 1), Rat(0, 1), Rat(1, 1)}
    ELSE {solve(p)[i] : i \in {j \in 1..Len(solve(p)) : is_real(solve(p)[j])}}

\* (numerator/g)/(denominator/g) at r, for a nonzero g.
ReducedRatioAt(g, r) ==
    RatDiv(PolySubs(PolyDivExact(numerator.expr, g), r),
           PolySubs(PolyDivExact(denominator.expr, g), r))

\* C11: for a valid analyzer with g = gcd(numerator, denominator),
\* find_holes returns no hole when g is a nonzero constant, and otherwise
\* one hole (r, y) for each real root r of g, y being the finite value of
\* the reduced ratio (numerator/g)/(denominator/g) at r, and no other hole.
C11_HolesFromCommonFactor ==
    (valid /\ call.method = "find_holes") =>
        LET g == PolyGcd(numerator.expr, denominator.expr)
            holes == call.out.ret
        IN  /\ Len(g) = 1 => holes = <<>>
            /\ Len(g) # 1 =>
                  /\ \A r \in RealRootsOf(g) :
                        \E i \in 1..Len(holes) :
                            /\ holes[i][1] = PyFloat(r)
                            /\ is_real(holes[i][2].of)
                            /\ g # ZeroPoly =>
                                  holes[i][2] = PyFloat(ReducedRatioAt(g, r))
                  /\ \A i \in 1..Len(holes) : holes[i][1].of \in RealRootsOf(g)

\* xs holds exactly the reals of roots that are no hole x-coordinate, as
\* floats in strictly ascending order.
ExactlyRootsOffHoles(xs, roots, holes) ==
    LET IsHoleX(r) == \E h \in 1..Len(holes) : holes[h][1] = PyFloat(r)
    IN  /\ \A i \in 1..Len(xs) :
              /\ xs[i].py = "float"
              /\ xs[i].of \in roots
              /\ ~IsHoleX(xs[i].of)
        /\ \A r \in roots : ~IsHoleX(r) => InList(PyFloat(r), xs)
        /\ \A i \in 1..Len(xs) : \A j \in 1..Len(xs) :
              i < j => LessReal(xs[i].of, xs[j].of)

\* C12: for a valid analyzer, find_vertical_asymptotes returns exactly the
\* distinct real roots of the denominator that are not the x of a hole
\* find_holes reports, each once, in strictly ascending order.
C12_AsymptotesAreDenominatorRootsOffHoles ==
    (valid /\ call.method = "find_vertical_asymptotes") =>
        ExactlyRootsOffHoles(call.out.ret, RealRootsOf(denominator.expr),
                             find_holes.ret)

\* C13: for a valid analyzer, find_x_intercepts returns exactly the
\* distinct real roots of the numerator that are not the x of a hole
\* find_holes reports, each once, in strictly ascending order.
C13_InterceptsAreNumeratorRootsOffHoles ==
    (valid /\ call.method = "find_x_intercepts") =>
        ExactlyRootsOffHoles(call.out.ret, RealRootsOf(numerator.expr),
                             find_holes.ret)

\* str(oo) or str(-oo) by sign
InfinityToken(sgn) == PyStr(IF sgn > 0 THEN Sym("oo") ELSE Sym("-oo"))

\* C14: for a valid analyzer with nonzero numerator and denominator,
\* analyze_end_behavior returns (limit at -oo, limit at +oo), in that
\* order: both 0 when deg(numerator) < deg(denominator); both the ratio of
\* the leading coefficients when the degrees are equal; otherwise the limit
\* at +oo is the infinity with the sign of that ratio, and the limit at -oo
\* has the same sign when the degree difference is even and the opposite
\* sign when it is odd.
C14_EndBehaviorDegreeRule ==
    (/\ valid
     /\ call.method = "analyze_end_behavior"
     /\ numerator.expr # ZeroPoly
     /\ denominator.expr # ZeroPoly) =>
        LET num_degree == Len(numerator.expr) - 1
            den_degree == Len(denominator.expr) - 1
            sgn == Sign(LeadCoef(numerator.expr)) * Sign(LeadCoef(denominator.expr))
            ratio == PyFloat(Rat(LeadCoef(numerator.expr),
                                 LeadCoef(denominator.expr)))
            neg == call.out.ret[1]
            pos == call.out.ret[2]
        IN  /\ num_degree < den_degree =>
                  neg = PyFloat(Rat(0, 1)) /\ pos = PyFloat(Rat(0, 1))
            /\ num_degree = den_degree => neg = ratio /\ pos = ratio
            /\ num_degree > den_degree =>
                  /\ pos = InfinityToken(sgn)
                  /\ (num_degree - den_degree) % 2 = 0 => neg = InfinityToken(sgn)
                  /\ (num_degree - den_degree) % 2 = 1 => neg = InfinityToken(-sgn)

\* The end behaviour of a function whose numerator has one degree more
\* than its denominator: the two limits are opposite infinities.
C14_Witness ==
    /\ valid
    /\ call.method = "analyze_end_behavior"
    /\ denominator.expr # ZeroPoly
    /\ Len(numerator.expr) = Len(denominator.expr) + 1
    /\ call.out.ret[1] # call.out.ret[2]
    /\ call.out.ret[2] = InfinityToken(Sign(LeadCoef(numerator.expr))
                                        * Sign(LeadCoef(denominator.expr)))

\* a - b of two rationals
RatSub(a, b) == Rat(Num(a) * Den(b) - Num(b) * Den(a), Den(a) * Den(b))

\* C15: in the curve plot_function draws for a valid analyzer there is one
\* y for each x, the x are PlotSamples evenly spaced points from the lower
\* to the upper end of the x range, both included, and every y is the
\* no-value marker nan or the value of the function there, finite and of
\* magnitude at most 1000: a value of magnitude above 1000 and a value whose
\* evaluation raises are replaced by the marker.
C15_SamplesClippedOrMarked ==
    (valid /\ call.method = "plot_function") =>
        LET x_vals == call.out.ret.x_vals
            y_vals == call.out.ret.y_vals
            x_range == call.args[1]
        IN  /\ Len(x_vals) = PlotSamples
            /\ Len(y_vals) = Len(x_vals)
            /\ x_vals[1] = Rat(x_range[1], 1)
            /\ x_vals[PlotSamples] = Rat(x_range[2], 1)
            /\ \A i \in 2..PlotSamples :
                  RatSub(x_vals[i], x_vals[i - 1]) = RatSub(x_vals[2], x_vals[1])
            /\ \A i \in 1..PlotSamples :
                  LET y == FunctionSubs(x_vals[i])
                  IN  /\ \/ y_vals[i] = NpNan
                         \/ /\ y_vals[i] = PyFloat(y)
                            /\ is_finite(y)
                            /\ Abs(Num(y)) <= PlotCeiling * Den(y)
                      /\ ToFloat(y).exc => y_vals[i] = NpNan
                      /\ (is_finite(y) /\ Abs(Num(y)) > PlotCeiling * Den(y)) =>
                            y_vals[i] = NpNan

\* A curve with a sample above the ceiling, replaced by the marker, and a
\* sample that is kept.
C15_Witness ==
    /\ valid
    /\ call.method = "plot_function"
    /\ \E i \in 1..PlotSamples :
          LET y == FunctionSubs(call.out.ret.x_vals[i])
          IN  /\ is_finite(y)
              /\ Abs(Num(y)) > PlotCeiling * Den(y)
              /\ call.out.ret.y_vals[i] = NpNan
    /\ \E i \in 1..PlotSamples : call.out.ret.y_vals[i] # NpNan

\* A finite Python number (int or float).
IsFiniteNumber(v) == v.py \in {"int", "float"} /\ v.of.tag = "real"

\* h, the result of find_horizontal_asymptote, agrees with eb, the result
\* of analyze_end_behavior.
AsymptoteAgreesWithLimits(h, eb) ==
    /\ (h # PyNone) <=> (IsFiniteNumber(eb[1]) /\ IsFiniteNumber(eb[2]))
    /\ (h # PyNone) => (eb[1].of = h.of /\ eb[2].of = h.of)
    /\ (h = PyNone) => (~IsFiniteNumber(eb[1]) /\ ~IsFiniteNumber(eb[2]))

\* C16: for a valid analyzer, find_horizontal_asymptote returns a value
\* exactly when both limits of analyze_end_behavior are finite numbers, and
\* both limits then equal that value; when it returns None neither limit is
\* a finite number.
C16_AsymptoteMatchesEndBehavior ==
    /\ (valid /\ call.method = "find_horizontal_asymptote") =>
          AsymptoteAgreesWithLimits(call.out.ret, analyze_end_behavior.ret)
    /\ (valid /\ call.method = "get_analysis_summary") =>
          AsymptoteAgreesWithLimits(call.out.ret.horizontal_asymptote,
                                    call.out.ret.end_behavior)

\* C17: in the Graph Builder, whenever an interaction leaves a new
\* function in the session ("New Challenge", "Start New Challenge", or the
\* first entry), the step counter is 0 once it is shown: the challenge
\* starts at the Vertical Asymptotes step.
C17_NewChallengeStartsAtStepZero ==
    [][(builder_function' # builder_function
          /\ builder_function' # NoBuilderFunction) => current_step' = 0]_vars

RaceInvariant ==
    /\ Len(race_functions) <= RaceLength
    /\ race_score <= RaceLength
    /\ race_active => (/\ race_functions # <<>>
                       /\ race_score + Len(race_functions) <= RaceLength)
    /\ ~race_active => race_functions = <<>>

RaceStep ==
    /\ (~race_active /\ race_active') =>
          /\ Len(race_functions') = RaceLength
          /\ race_score' = 0
          /\ score' = score
    /\ (race_active /\ race_functions' # race_functions) =>
          /\ race_functions' = Tail(race_functions)
          /\ race_score' - race_score \in {0, 1}
    /\ (race_active /\ ~race_active') =>
          /\ race_functions' = <<>>
          /\ score' = score + 2 * race_score'
    /\ (/\ game_mode = "End Behavior Race"
        /\ game_mode' = "End Behavior Race"
        /\ ~(race_active /\ ~race_active')) => score' \in {score, 0}

\* C18: a race starts with RaceLength (5) functions and a race score of 0;
\* each Submit removes exactly the first function and adds at most 1 to
\* race_score, which never exceeds 5; the interaction that empties the list
\* ends the race (race_active is False with an empty list, and a list is
\* never empty while the race is active) and adds 2*race_score to the total
\* score; no other interaction of the race page adds to the total score.
C18_RaceScoring == []RaceInvariant /\ [][RaceStep]_vars

\* A race that was run to its end: five points, ten added to the score.
C18_Witness ==
    /\ ~race_active
    /\ race_score = RaceLength
    /\ score = 2 * race_score

====
